---------------------------- MODULE Spec2Model ----------------------------
(***************************************************************************)
(* Model of the traffic pipeline of github-repo-traffic:                   *)
(*   fetch.py             appends one snapshot per repository to the raw   *)
(*                        log;                                             *)
(*   process.py           expands each snapshot's sparse daily lists,      *)
(*                        reconciles them per repository and rewrites the  *)
(*                        processed directory;                             *)
(*   verify_2wk_window.py audits the trailing-window assumption.           *)
(*                                                                         *)
(* Representation.  A datetime.date is its day ordinal counted from        *)
(* 1970-01-01.  A 'YYYY-MM-DD' string is the triple <<year, month, day>>:  *)
(* the zero-padded fixed-width text compares as the triple compares        *)
(* lexicographically (YmdLess).  Timestamps are whole seconds since the    *)
(* epoch and the local time zone is UTC.  A call either returns or raises: *)
(* its result is Return(v) or Raise(exception, source line).               *)
(***************************************************************************)
EXTENDS Integers, Sequences, FiniteSets, TLC

VARIABLES raw,       \* the raw file: whether it exists and the lines it holds
          fetch,     \* the fetch_repos call: its position, or how it ended
          proc_dir,  \* the processed directory: file name -> record or NoFile
          outcome,   \* how the last process_repos run ended
          objs,      \* the raw log as read by the last process_repos run
          arg,       \* the arguments of a direct call of one function
          ret        \* what that call returned or raised

vars == <<raw, fetch, proc_dir, outcome, objs, arg, ret>>

----------------------------------------------------------------------------
\* Results of calls

Return(v) == [kind |-> "ok", value |-> v]

Raise(exc, line) == [kind |-> exc, line |-> line]

Pending == [kind |-> "pending"]

Returned(r) == r.kind = "ok"

\* The code after a call: F of the value the call returned, or the exception
\* the call raised, which nothing below catches.
Then(r, F(_)) == IF Returned(r) THEN F(r.value) ELSE r

----------------------------------------------------------------------------
\* Calendar: datetime.date, strftime('%Y-%m-%d'), strptime, mktime

SecPerDay == 24 * 60 * 60

\* date.fromtimestamp(t): the local (UTC) calendar day holding second t.
date_fromtimestamp(t) == t \div SecPerDay

\* The proleptic Gregorian date <<y, m, d>> of day ordinal z.
civil_from_days(z) ==
    LET z2  == z + 719468
        era == z2 \div 146097
        doe == z2 - era * 146097
        yoe == (doe - doe \div 1460 + doe \div 36524 - doe \div 146096) \div 365
        doy == doe - (365 * yoe + yoe \div 4 - yoe \div 100)
        mp  == (5 * doy + 2) \div 153
        d   == doy - (153 * mp + 2) \div 5 + 1
        m   == IF mp < 10 THEN mp + 3 ELSE mp - 9
        y   == yoe + era * 400 + (IF m <= 2 THEN 1 ELSE 0)
    IN  <<y, m, d>>

\* The day ordinal of the proleptic Gregorian date y-m-d.
days_from_civil(y, m, d) ==
    LET y2  == IF m <= 2 THEN y - 1 ELSE y
        era == y2 \div 400
        yoe == y2 - era * 400
        mp  == IF m > 2 THEN m - 3 ELSE m + 9
        doy == (153 * mp + 2) \div 5 + d - 1
        doe == yoe * 365 + yoe \div 4 - yoe \div 100 + doy
    IN  era * 146097 + doe - 719468

\* d.strftime('%Y-%m-%d')
strftime(d) == civil_from_days(d)

\* datetime.strptime(ymd, '%Y-%m-%d'), as a day ordinal
strptime(ymd) == days_from_civil(ymd[1], ymd[2], ymd[3])

\* mktime(datetime.strptime(ymd, '%Y-%m-%d').timetuple()): local midnight
mktime_of(ymd) == strptime(ymd) * SecPerDay

\* Order of two 'YYYY-MM-DD' strings as Python compares str values.
YmdLess(a, b) ==
    \/ a[1] < b[1]
    \/ a[1] = b[1] /\ a[2] < b[2]
    \/ a[1] = b[1] /\ a[2] = b[2] /\ a[3] < b[3]

----------------------------------------------------------------------------
\* process.py: date_range, each_day

\* Mutant of date_range: the stop date is included.
date_range_inclusive(start, stop) ==
    LET count == stop - start + 1
    IN  [i \in 1..(IF count > 0 THEN count ELSE 0) |-> start + (i - 1)]

\* date_range(start, stop): start, start + 1, ..., stop - 1.
date_range(start, stop) ==
    LET count == stop - start
    IN  [i \in 1..(IF count > 0 THEN count ELSE 0) |-> start + (i - 1)]

zero_pair == <<0, 0>>

\* The assertion of line 58 fails: a date of days occurs a second time.
HasDuplicateDay(days) ==
    \E i, j \in 1..Len(days) : i < j /\ days[i].date = days[j].date

\* ymd2pair[ymd] of each_day once its first loop has filled it from days.
ymd2pair(days, ymd) ==
    IF \E i \in 1..Len(days) : days[i].date = ymd
    THEN LET i == CHOOSE k \in 1..Len(days) : days[k].date = ymd
         IN  <<days[i].count, days[i].uniques>>
    ELSE zero_pair

\* The dates each_day walks: date_range(fetch_date - timedelta(window_days - 2),
\* fetch_date - timedelta(1)).
WindowSpan(fetch_time, window_days) ==
    LET fetch_date == date_fromtimestamp(fetch_time)
    IN  date_range(fetch_date - (window_days - 2), fetch_date - 1)

\* Mutant of each_day: the sparse values are not looked up, every day is zero.
each_day_allzero(days, fetch_time, window_days) ==
    IF HasDuplicateDay(days)
    THEN Raise("AssertionError", 58)
    ELSE LET span == WindowSpan(fetch_time, window_days)
         IN  Return([i \in 1..Len(span) |->
                       <<strftime(span[i]), 0, 0>>])

\* Mutant of each_day: only the days the sparse list reports are yielded.
each_day_nofill(days, fetch_time, window_days) ==
    IF HasDuplicateDay(days)
    THEN Raise("AssertionError", 58)
    ELSE LET span == WindowSpan(fetch_time, window_days)
             kept == SelectSeq(span,
                        LAMBDA d : \E i \in 1..Len(days) :
                                        days[i].date = strftime(d))
         IN  Return([i \in 1..Len(kept) |->
                       <<strftime(kept[i]),
                         ymd2pair(days, strftime(kept[i]))[1],
                         ymd2pair(days, strftime(kept[i]))[2]>>])

\* list(each_day(days, fetch_time, window_days)): the expanded window, one
\* <<ymd, count, unique>> per day, or the failed assertion of line 58.
each_day(days, fetch_time, window_days) ==
    IF HasDuplicateDay(days)
    THEN Raise("AssertionError", 58)
    ELSE LET span == WindowSpan(fetch_time, window_days)
         IN  Return([i \in 1..Len(span) |->
                       <<strftime(span[i]),
                         ymd2pair(days, strftime(span[i]))[1],
                         ymd2pair(days, strftime(span[i]))[2]>>])

----------------------------------------------------------------------------
\* process.py: get_daily_stats

\* The position of key ymd in date2pair, a dict kept as its items in insertion
\* order; 0 when the key is absent.
KeyIndex(date2pair, ymd) ==
    IF \E k \in 1..Len(date2pair) : date2pair[k][1] = ymd
    THEN CHOOSE k \in 1..Len(date2pair) : date2pair[k][1] = ymd
    ELSE 0

\* The inner loop of get_daily_stats (lines 85-89) over one expanded window.
\* onclash is what a second observation of a date does: "assert" is the code
\* (line 89); "keep" and "overwrite" are the merge rules of the mutants.
RECURSIVE MergeWindow(_, _, _, _)
MergeWindow(date2pair, entries, i, onclash) ==
    IF i > Len(entries)
    THEN Return(date2pair)
    ELSE LET ymd  == entries[i][1]
             pair == <<entries[i][2], entries[i][3]>>
             k    == KeyIndex(date2pair, ymd)
         IN  IF k = 0
             THEN MergeWindow(Append(date2pair, <<ymd, pair>>),
                              entries, i + 1, onclash)
             ELSE IF date2pair[k][2] = pair \/ onclash = "keep"
             THEN MergeWindow(date2pair, entries, i + 1, onclash)
             ELSE IF onclash = "overwrite"
             THEN MergeWindow([date2pair EXCEPT ![k] = <<ymd, pair>>],
                              entries, i + 1, onclash)
             ELSE Raise("AssertionError", 89)

\* The outer loop of get_daily_stats (lines 82-89) from snapshot n on.
RECURSIVE MergeSnapshots(_, _, _, _, _, _)
MergeSnapshots(snaps, key, window, n, date2pair, onclash) ==
    IF n > Len(snaps)
    THEN Return(date2pair)
    ELSE Then(each_day(snaps[n][key].daily, snaps[n].time, window),
              LAMBDA entries :
                  Then(MergeWindow(date2pair, entries, 1, onclash),
                       LAMBDA merged :
                           MergeSnapshots(snaps, key, window, n + 1, merged,
                                          onclash)))

\* sorted(keys) for 'YYYY-MM-DD' strings, all different.
RECURSIVE Sorted(_)
Sorted(keys) ==
    IF keys = <<>>
    THEN <<>>
    ELSE LET m == CHOOSE i \in 1..Len(keys) :
                      \A j \in 1..Len(keys) : ~YmdLess(keys[j], keys[i])
         IN  <<keys[m]>> \o
             Sorted([j \in 1..(Len(keys) - 1) |->
                        IF j < m THEN keys[j] ELSE keys[j + 1]])

\* Lines 91-98 of get_daily_stats: the dates in the given order, the pairs
\* unzipped; zip(*pairs) of no pair cannot be unpacked into two names.
Unzipped(date2pair, dates) ==
    IF dates = <<>>
    THEN Raise("ValueError", 97)
    ELSE Return(<<dates,
                  [i \in 1..Len(dates) |->
                      date2pair[KeyIndex(date2pair, dates[i])][2][1]],
                  [i \in 1..Len(dates) |->
                      date2pair[KeyIndex(date2pair, dates[i])][2][2]]>>)

DictKeys(date2pair) == [k \in 1..Len(date2pair) |-> date2pair[k][1]]

\* Mutant of get_daily_stats: a second observation of a date replaces the
\* first instead of being compared with it.
get_daily_stats_lastwins(snaps, key, window) ==
    Then(MergeSnapshots(snaps, key, window, 1, <<>>, "overwrite"),
         LAMBDA date2pair : Unzipped(date2pair, Sorted(DictKeys(date2pair))))

\* Mutant of get_daily_stats: a second observation of a date is dropped
\* without being compared with the first.
get_daily_stats_firstwins(snaps, key, window) ==
    Then(MergeSnapshots(snaps, key, window, 1, <<>>, "keep"),
         LAMBDA date2pair : Unzipped(date2pair, Sorted(DictKeys(date2pair))))

\* Mutant of get_daily_stats: the dates are left in insertion order.
get_daily_stats_unsorted(snaps, key, window) ==
    Then(MergeSnapshots(snaps, key, window, 1, <<>>, "assert"),
         LAMBDA date2pair : Unzipped(date2pair, DictKeys(date2pair)))

\* get_daily_stats(objs, key, window_days): <<dates, counts, uniques>>, or the
\* exception raised.
get_daily_stats(snaps, key, window) ==
    Then(MergeSnapshots(snaps, key, window, 1, <<>>, "assert"),
         LAMBDA date2pair : Unzipped(date2pair, Sorted(DictKeys(date2pair))))

----------------------------------------------------------------------------
\* process.py: get_point_stats, noon_time_from_date, process_repo

\* get_point_stats(objs, key): <<times, values>> in the order of objs.
get_point_stats(snaps, key) ==
    <<[i \in 1..Len(snaps) |-> snaps[i].time],
      [i \in 1..Len(snaps) |-> snaps[i][key]]>>

\* noon_time_from_date(date)
noon_time_from_date(ymd) == mktime_of(ymd) + 12 * 60 * 60

window_days == 14

\* Lines 146-169 of process_repo: the object built from the reconciled clones
\* c and views v, each <<dates, counts, uniques>>.
ProcessedRecord(repo, snaps, c, v) ==
    LET forks   == get_point_stats(snaps, "forks")
        stars   == get_point_stats(snaps, "stars")
        watches == get_point_stats(snaps, "watchers")
    IN  IF ~(forks[1] = stars[1] /\ stars[1] = watches[1])
        THEN Raise("AssertionError", 151)
        ELSE Return(
            [repo  |-> repo,
             daily |-> [dates   |-> c[1],
                        times   |-> [i \in 1..Len(c[1]) |->
                                        noon_time_from_date(c[1][i])],
                        clones  |-> c[2],
                        cloners |-> c[3],
                        views   |-> v[2],
                        viewers |-> v[3]],
             point |-> [times    |-> forks[1],
                        forks    |-> forks[2],
                        stars    |-> stars[2],
                        watchers |-> watches[2]]])

\* process_repo(repo, objs, proc_file): the object it dumps to proc_file, or
\* the exception it raises before opening the file.
process_repo(repo, snaps) ==
    Then(get_daily_stats(snaps, "clones", window_days),
         LAMBDA c :
             Then(get_daily_stats(snaps, "views", window_days),
                  LAMBDA v :
                      IF c[1] # v[1]
                      THEN Raise("AssertionError", 145)
                      ELSE ProcessedRecord(repo, snaps, c, v)))

----------------------------------------------------------------------------
\* process.py: process_repos

\* The repository names of the model in the order sorted() gives them.
RepoOrder == <<"a/x", "b/y">>

Repos == {RepoOrder[i] : i \in 1..Len(RepoOrder)}

\* repo.replace('/', '.') + '.json'
proc_basename(repo) ==
    CASE repo = "a/x" -> "a.x.json"
      [] repo = "b/y" -> "b.y.json"
      [] repo = "old/repo" -> "old.repo.json"

\* The file names a processed directory of the model can hold.
Files == {proc_basename(r) : r \in Repos \cup {"old/repo"}}

NoFile == [kind |-> "absent"]

\* repo2objs[repo] (lines 192-195): the snapshots of repo in log order.
repo2objs(snaps, repo) == SelectSeq(snaps, LAMBDA o : o.repo = repo)

\* sorted(repo2objs)
SortedRepos(snaps) ==
    SelectSeq(RepoOrder, LAMBDA r : \E i \in 1..Len(snaps) : snaps[i].repo = r)

\* A processed directory that holds no file.
EmptyDir == [f \in Files |-> NoFile]

\* Mutant of ClearDir: the processed directory is not removed first.
KeepDir(dir) == dir

\* Lines 197-199: rmtree(proc_dir) if it exists, then makedirs(proc_dir).
ClearDir(dir) == EmptyDir

\* The loop of lines 201-205 from the i-th repository on: the first exception
\* ends the run, the files written before it stay.
RECURSIVE RunRepos(_, _, _, _)
RunRepos(snaps, repos, i, dir) ==
    IF i > Len(repos)
    THEN [outcome |-> Return("None"), proc_dir |-> dir]
    ELSE LET Written(r) ==
                 IF ~Returned(r)
                 THEN [outcome |-> r, proc_dir |-> dir]
                 ELSE RunRepos(snaps, repos, i + 1,
                               [dir EXCEPT ![proc_basename(repos[i])] = r.value])
         IN  Written(process_repo(repos[i], repo2objs(snaps, repos[i])))

\* A raw file that does not exist, and one that holds the lines snaps.
NoRawFile == [exists |-> FALSE, lines |-> <<>>]

RawFile(snaps) == [exists |-> TRUE, lines |-> snaps]

\* process_repos(raw_file, proc_dir) on the raw file and a processed directory
\* holding dir.  A missing raw file (line 183) and a raw file without a line
\* (line 190) raise ValueError before the processed directory is touched.
process_repos(raw_file, dir) ==
    IF ~raw_file.exists
    THEN [outcome |-> Raise("ValueError", 183), proc_dir |-> dir]
    ELSE IF raw_file.lines = <<>>
    THEN [outcome |-> Raise("ValueError", 190), proc_dir |-> dir]
    ELSE RunRepos(raw_file.lines, SortedRepos(raw_file.lines), 1, ClearDir(dir))

----------------------------------------------------------------------------
\* verify_2wk_window.py: main

two_weeks == 14

\* Lines 33-35: the midnight of the first entry of a sparse daily list;
\* days[0] of an empty list raises IndexError.
first_then(days) ==
    IF days = <<>>
    THEN Raise("IndexError", 34)
    ELSE Return(mktime_of(days[1].date))

\* Lines 30-38: the gap, in seconds, of one snapshot.
snapshot_gap(obj) ==
    Then(first_then(obj.clones.daily),
         LAMBDA then_clones :
             Then(first_then(obj.views.daily),
                  LAMBDA then_views :
                      Return(obj.time - (IF then_clones <= then_views
                                         THEN then_clones
                                         ELSE then_views))))

\* The loop of lines 29-39 from line i of the data file on.
RECURSIVE collect_gaps(_, _, _)
collect_gaps(data, i, gaps) ==
    IF i > Len(data)
    THEN Return(gaps)
    ELSE Then(snapshot_gap(data[i]),
              LAMBDA gap : collect_gaps(data, i + 1, Append(gaps, gap)))

\* Lines 46-55 on the gaps collected: gaps[0] and gaps[-1] of the sorted list
\* are the least and the greatest gap; gap / sec_per_day is compared with 0
\* and with two_weeks, which on whole seconds is gap compared with 0 and with
\* two_weeks * sec_per_day.
check_gaps(gaps) ==
    IF gaps = <<>>
    THEN Raise("IndexError", 54)
    ELSE LET least    == CHOOSE g \in {gaps[k] : k \in 1..Len(gaps)} :
                             \A k \in 1..Len(gaps) : g <= gaps[k]
             greatest == CHOOSE g \in {gaps[k] : k \in 1..Len(gaps)} :
                             \A k \in 1..Len(gaps) : g >= gaps[k]
         IN  IF ~(0 <= least)
             THEN Raise("AssertionError", 54)
             ELSE IF ~(greatest < two_weeks * SecPerDay)
             THEN Raise("AssertionError", 55)
             ELSE Return("None")

\* main(args) of the verifier on a data file holding the lines data.
verify_main(data) ==
    Then(collect_gaps(data, 1, <<>>), LAMBDA gaps : check_gaps(gaps))

----------------------------------------------------------------------------
\* fetch.py: the snapshot written for one repository

\* One entry of a sparse daily list as day_to_json writes it.
DayRec(d, c, u) == [date |-> strftime(d), count |-> c, uniques |-> u]

\* repo_to_json(repo) at time(): the line appended to the raw log.  The
\* window totals of traffic_to_json, which nothing reads, are left out.
repo_to_json(t, repo, point, traffic) ==
    [time     |-> t,
     repo     |-> repo,
     stars    |-> point.stars,
     watchers |-> point.watchers,
     forks    |-> point.forks,
     clones   |-> [daily |-> traffic.clones],
     views    |-> [daily |-> traffic.views]]

----------------------------------------------------------------------------
\* Inputs of the direct calls of each_day

MaxDays == 2

MaxCount == 2

MaxWindow == 5

\* The fetch day of the direct calls: the windows straddle the new year.
ExpandDay == days_from_civil(2024, 1, 3)

ExpandDayRecs ==
    {DayRec(d, c, 1) : d \in (ExpandDay - 3)..ExpandDay, c \in 1..MaxCount}

SeqsUpTo(S, n) == UNION {[1..k -> S] : k \in 0..n}

ExpandArgs ==
    {[days |-> ds, fetch_time |-> t, window_days |-> w] :
        ds \in SeqsUpTo(ExpandDayRecs, MaxDays),
        t \in {ExpandDay * SecPerDay, ExpandDay * SecPerDay + 86399},
        w \in (0..MaxWindow) \cup {window_days}}

InitExpand ==
    /\ raw = NoRawFile
    /\ fetch = Pending
    /\ proc_dir = EmptyDir
    /\ outcome = Pending
    /\ objs = <<>>
    /\ arg \in ExpandArgs
    /\ ret = Pending

CallEachDay ==
    /\ ret = Pending
    /\ ret' = each_day(arg.days, arg.fetch_time, arg.window_days)
    /\ UNCHANGED <<raw, fetch, proc_dir, outcome, objs, arg>>

SpecExpand == InitExpand /\ [][CallEachDay]_vars

----------------------------------------------------------------------------
\* Properties of each_day (SpecExpand)

UniqueDates(days) ==
    \A i, j \in 1..Len(days) : days[i].date = days[j].date => i = j

\* The first day of the window span and the day that ends it (excluded).
SpanStart(a) == date_fromtimestamp(a.fetch_time) - (a.window_days - 2)

SpanStop(a) == date_fromtimestamp(a.fetch_time) - 1

\* out holds exactly one entry for each calendar day of [SpanStart, SpanStop)
\* and no other entry, oldest first.
ExactWindow(out, a) ==
    /\ \A d \in SpanStart(a)..(SpanStop(a) - 1) :
           Cardinality({i \in 1..Len(out) : out[i][1] = strftime(d)}) = 1
    /\ \A i \in 1..Len(out) :
           /\ strptime(out[i][1]) \in SpanStart(a)..(SpanStop(a) - 1)
           /\ strftime(strptime(out[i][1])) = out[i][1]
    /\ \A i \in 1..(Len(out) - 1) :
           strptime(out[i][1]) < strptime(out[i + 1][1])
    /\ Len(out) = IF a.window_days >= 3 THEN a.window_days - 3 ELSE 0
    /\ a.window_days = 14 => Len(out) = 11

\* Every sparse entry among those of indices I is in out with its own values.
SparseKept(out, days, I) ==
    \A i \in I :
        \E j \in 1..Len(out) :
            out[j] = <<days[i].date, days[i].count, days[i].uniques>>

\* Every entry of out whose date the sparse list does not report is (0, 0).
AbsentZero(out, days) ==
    \A j \in 1..Len(out) :
        (\A i \in 1..Len(days) : days[i].date # out[j][1])
            => out[j][2] = 0 /\ out[j][3] = 0

\* The sparse entries whose date lies in the window span.
InSpan(a) ==
    {i \in 1..Len(a.days) :
        strptime(a.days[i].date) \in SpanStart(a)..(SpanStop(a) - 1)}

\* C2 as stated: for a sparse list with unique dates, every sparse date is in
\* the expanded output with the input's (count, uniques), and every output
\* date absent from the sparse list is (0, 0).
C2_AsStated ==
    (ret # Pending /\ UniqueDates(arg.days)) =>
        /\ Returned(ret)
        /\ SparseKept(ret.value, arg.days, 1..Len(arg.days))
        /\ AbsentZero(ret.value, arg.days)

\* C2 amended: for a sparse list with unique dates, every sparse date that
\* lies in the window span [fetch_date - (W - 2), fetch_date - 1) is in the
\* output with the input's (count, uniques), a sparse date outside the span
\* is not in the output, and every output date absent from the sparse list
\* is (0, 0).
C2_ZeroFill ==
    (ret # Pending /\ UniqueDates(arg.days)) =>
        /\ Returned(ret)
        /\ SparseKept(ret.value, arg.days, InSpan(arg))
        /\ \A i \in (1..Len(arg.days)) \ InSpan(arg) :
               \A j \in 1..Len(ret.value) : ret.value[j][1] # arg.days[i].date
        /\ AbsentZero(ret.value, arg.days)

\* C2 witness: a call returned for a list with one date kept with count 2,
\* one date outside the span, and a zero-filled day.
C2_Witness ==
    /\ Returned(ret)
    /\ Len(arg.days) = 2
    /\ Cardinality(InSpan(arg)) = 1
    /\ \E i \in InSpan(arg) : arg.days[i].count = 2
    /\ \E j \in 1..Len(ret.value) : ret.value[j][2] = 2
    /\ \E j \in 1..Len(ret.value) : ret.value[j][2] = 0

\* C3 as stated: whatever the sparse input, the output is exactly the window
\* span, one entry per day, oldest first.
C3_AsStated ==
    ret # Pending => (Returned(ret) /\ ExactWindow(ret.value, arg))

\* C3 amended: whatever the sparse input with unique dates, the output is
\* exactly the window span, one entry per day, oldest first (W - 3 entries
\* when W >= 3, none otherwise, 11 for W = 14); a sparse input that repeats a
\* date makes each_day fail the assertion of line 58 with no output.
C3_Completeness ==
    ret # Pending =>
        IF UniqueDates(arg.days)
        THEN Returned(ret) /\ ExactWindow(ret.value, arg)
        ELSE ret = Raise("AssertionError", 58)

\* C3 witness: a call with W = 14 and a non-empty sparse list returned the 11
\* days from 2023-12-22 to 2024-01-01.
C3_Witness ==
    /\ Returned(ret)
    /\ arg.window_days = 14
    /\ arg.days # <<>>
    /\ Len(ret.value) = 11
    /\ ret.value[1][1] = <<2023, 12, 22>>
    /\ ret.value[11][1] = <<2024, 1, 1>>

----------------------------------------------------------------------------
\* The pipeline: fetch runs append to the raw log, process runs rebuild the
\* processed directory (Spec)

MaxLog == 2

\* The first fetch day of the pipeline.
PipeDay == days_from_civil(2024, 1, 8)

\* What time() returns at a fetch: a wall clock, which may be set back
\* between two fetches.
FetchTimes ==
    {PipeDay * SecPerDay + 9 * 3600, (PipeDay + 3) * SecPerDay + 15 * 3600}

\* The day, inside the window of both fetch times, whose traffic the API
\* reports.
TrafficDay == PipeDay - 5

\* What the API reports as clones and views traffic: nothing, clones or
\* views on TrafficDay, or a clones list that reports TrafficDay twice.
Traffic ==
    {[clones |-> <<>>, views |-> <<>>],
     [clones |-> <<DayRec(TrafficDay, 2, 1)>>, views |-> <<>>],
     [clones |-> <<>>, views |-> <<DayRec(TrafficDay, 3, 2)>>],
     [clones |-> <<DayRec(TrafficDay, 2, 1), DayRec(TrafficDay, 2, 1)>>,
      views  |-> <<>>]}

\* What the API reports as point metrics at time t: one more star each day.
PointsAt(t) ==
    [stars    |-> 5 + (date_fromtimestamp(t) - PipeDay),
     forks    |-> 1,
     watchers |-> 2]

\* config['repos']
RepoNameLists == {<<>>, <<"a/x">>, <<"b/y">>, <<"a/x", "b/y">>}

\* The lines fetch_repos can write for the repository named r: the API's
\* answers and time() vary.
FetchedLines(r) ==
    {repo_to_json(t, r, PointsAt(t), tr) : t \in FetchTimes, tr \in Traffic}

\* The calls of one loop turn that wait on the network and can raise:
\* get_repo (line 125), get_clones_traffic and get_views_traffic (lines 96
\* and 97, inside repo_to_json).
NetworkCalls == {125, 96, 97}

\* fetch_repos inside its with block: the names it was given, the number of
\* lines it has written, and the written lines the file object still buffers.
Open(repo_names, n, buffer) ==
    [kind |-> "open", repo_names |-> repo_names, n |-> n, buffer |-> buffer]

\* A processed directory left by an earlier configuration.
StaleDir ==
    [f \in Files |->
        IF f = "old.repo.json"
        THEN [repo  |-> "old/repo",
              daily |-> [dates |-> <<>>, times |-> <<>>, clones |-> <<>>,
                         cloners |-> <<>>, views |-> <<>>, viewers |-> <<>>],
              point |-> [times |-> <<>>, forks |-> <<>>, stars |-> <<>>,
                         watchers |-> <<>>]]
        ELSE NoFile]

\* Before the first fetch: no raw file, and a processed directory that an
\* earlier configuration filled.
Init ==
    /\ raw = NoRawFile
    /\ fetch = Pending
    /\ proc_dir = StaleDir
    /\ outcome = Pending
    /\ objs = <<>>
    /\ arg = <<>>
    /\ ret = Pending

\* fetch.py main up to line 123: open(filename, 'a') creates the raw file when
\* it is missing and leaves its lines alone.
FetchOpen ==
    \E repo_names \in RepoNameLists :
        /\ fetch.kind # "open"
        /\ Len(raw.lines) + Len(repo_names) <= MaxLog
        /\ raw' = [raw EXCEPT !.exists = TRUE]
        /\ fetch' = Open(repo_names, 0, <<>>)
        /\ UNCHANGED <<proc_dir, outcome, objs, arg, ret>>

\* One turn of the loop of lines 124-128: the line of the next repository goes
\* to the buffer of the file object.
FetchRepo ==
    /\ fetch.kind = "open"
    /\ fetch.n < Len(fetch.repo_names)
    /\ \E line \in FetchedLines(fetch.repo_names[fetch.n + 1]) :
           fetch' = [fetch EXCEPT !.n = @ + 1, !.buffer = Append(@, line)]
    /\ UNCHANGED <<raw, proc_dir, outcome, objs, arg, ret>>

\* The file object empties its buffer into the raw file, as it does when the
\* buffer is full: the whole lines written so far become readable.
FetchFlush ==
    /\ fetch.kind = "open"
    /\ fetch.buffer # <<>>
    /\ raw' = [raw EXCEPT !.lines = @ \o fetch.buffer]
    /\ fetch' = [fetch EXCEPT !.buffer = <<>>]
    /\ UNCHANGED <<proc_dir, outcome, objs, arg, ret>>

\* A network call of the next turn raises: the with block closes the file,
\* which flushes the lines written before, and the exception ends the call.
FetchRaise ==
    /\ fetch.kind = "open"
    /\ fetch.n < Len(fetch.repo_names)
    /\ raw' = [raw EXCEPT !.lines = @ \o fetch.buffer]
    /\ \E line \in NetworkCalls : fetch' = Raise("ConnectionError", line)
    /\ UNCHANGED <<proc_dir, outcome, objs, arg, ret>>

\* The loop is over: the with block closes the file and fetch_repos returns.
FetchReturn ==
    /\ fetch.kind = "open"
    /\ fetch.n = Len(fetch.repo_names)
    /\ raw' = [raw EXCEPT !.lines = @ \o fetch.buffer]
    /\ fetch' = Return("None")
    /\ UNCHANGED <<proc_dir, outcome, objs, arg, ret>>

\* process.py main: one process_repos run over the raw file as it stands,
\* whether or not a fetch_repos call is writing to it.
ProcessRepos ==
    \E run \in {process_repos(raw, proc_dir)} :
        /\ objs' = raw.lines
        /\ outcome' = run.outcome
        /\ proc_dir' = run.proc_dir
        /\ UNCHANGED <<raw, fetch, arg, ret>>

Next ==
    \/ FetchOpen
    \/ FetchRepo
    \/ FetchFlush
    \/ FetchRaise
    \/ FetchReturn
    \/ ProcessRepos

Spec == Init /\ [][Next]_vars

----------------------------------------------------------------------------
\* Properties of the pipeline (Spec)

\* The repositories that have a snapshot in the log snaps.
ReposIn(snaps) == {snaps[i].repo : i \in 1..Len(snaps)}

\* A process_repos run has read a log with at least one line.
RunEnded == outcome # Pending /\ objs # <<>>

\* Snapshots s1 and s2 have expanded windows that give one date two different
\* (count, uniques) for metric key.
Conflict(s1, s2, key) ==
    LET e1 == each_day(s1[key].daily, s1.time, window_days)
        e2 == each_day(s2[key].daily, s2.time, window_days)
    IN  /\ Returned(e1)
        /\ Returned(e2)
        /\ \E i \in 1..Len(e1.value), j \in 1..Len(e2.value) :
               /\ e1.value[i][1] = e2.value[j][1]
               /\ <<e1.value[i][2], e1.value[i][3]>> #
                  <<e2.value[j][2], e2.value[j][3]>>

\* Some two snapshots of snaps conflict on metric key.
HasConflict(snaps, key) ==
    \E i, j \in 1..Len(snaps) : Conflict(snaps[i], snaps[j], key)

\* No sparse list of snaps repeats a date and no two snapshots conflict.
Consistent(snaps) ==
    /\ \A i \in 1..Len(snaps) :
           UniqueDates(snaps[i].clones.daily) /\ UniqueDates(snaps[i].views.daily)
    /\ ~HasConflict(snaps, "clones")
    /\ ~HasConflict(snaps, "views")

\* C1 as stated: when a batch run has ended, every repository of the log whose
\* own snapshots are consistent has its processed record written, whether or
\* not processing another repository failed.
C1_AsStated ==
    RunEnded =>
        \A r \in ReposIn(objs) :
            Consistent(repo2objs(objs, r)) => proc_dir[proc_basename(r)] # NoFile

\* C4: when a run has ended and two snapshots of a repository conflict on
\* clones or on views, in either log order, processing that repository fails
\* on an assertion inside get_daily_stats (line 89, or line 58 when a list
\* repeats a date), the run ends with an AssertionError and the processed
\* directory holds no record of that repository.
C4_ConflictDetected ==
    RunEnded =>
        \A r \in ReposIn(objs) :
            (HasConflict(repo2objs(objs, r), "clones")
                 \/ HasConflict(repo2objs(objs, r), "views")) =>
                /\ process_repo(r, repo2objs(objs, r)).kind = "AssertionError"
                /\ process_repo(r, repo2objs(objs, r)).line \in {58, 89}
                /\ outcome.kind = "AssertionError"
                /\ proc_dir[proc_basename(r)] = NoFile

\* C4 witness: a run over two snapshots of a/x, the later one first in the
\* log, that agree on clones and conflict on views ended on line 89 and left
\* no record of a/x.
C4_Witness ==
    /\ RunEnded
    /\ outcome = Raise("AssertionError", 89)
    /\ Len(objs) = 2
    /\ objs[1].repo = "a/x" /\ objs[2].repo = "a/x"
    /\ objs[1].time > objs[2].time
    /\ ~HasConflict(objs, "clones")
    /\ HasConflict(objs, "views")
    /\ proc_dir["a.x.json"] = NoFile

NonDecreasing(times) ==
    \A i \in 1..(Len(times) - 1) : times[i] <= times[i + 1]

\* C7 as stated: in every record a run wrote, point.times is non-decreasing
\* and stars, forks and watchers at position i are those of a snapshot of the
\* repository whose fetch time is point.times[i].
C7_AsStated ==
    RunEnded =>
        \A r \in ReposIn(objs) :
            proc_dir[proc_basename(r)] # NoFile =>
                LET point == proc_dir[proc_basename(r)].point
                    snaps == repo2objs(objs, r)
                IN  /\ NonDecreasing(point.times)
                    /\ Len(point.times) = Len(snaps)
                    /\ \A i \in 1..Len(point.times) :
                           \E k \in 1..Len(snaps) :
                               /\ snaps[k].time = point.times[i]
                               /\ snaps[k].stars = point.stars[i]
                               /\ snaps[k].forks = point.forks[i]
                               /\ snaps[k].watchers = point.watchers[i]

\* C8: once a run has succeeded, the processed directory holds the record
\* process_repo derives from the log as read for each repository of that log,
\* under file names that differ from one repository to the other, and no
\* other file: the directory is a function of the log the run read.
C8_FullRebuild ==
    (RunEnded /\ Returned(outcome)) =>
        /\ \A f \in Files :
               proc_dir[f] =
                   IF \E r \in ReposIn(objs) : proc_basename(r) = f
                   THEN LET r == CHOOSE q \in ReposIn(objs) : proc_basename(q) = f
                        IN  process_repo(r, repo2objs(objs, r)).value
                   ELSE NoFile
        /\ \A r1, r2 \in ReposIn(objs) :
               proc_basename(r1) = proc_basename(r2) => r1 = r2

\* C8 witness: a successful run over a log of two repositories wrote both
\* records and left no other file.
C8_Witness ==
    /\ RunEnded
    /\ Returned(outcome)
    /\ proc_dir["a.x.json"] # NoFile
    /\ proc_dir["b.y.json"] # NoFile
    /\ proc_dir["old.repo.json"] = NoFile
    /\ proc_dir["a.x.json"].daily.clones # proc_dir["b.y.json"].daily.clones

----------------------------------------------------------------------------
\* Direct calls of get_daily_stats and process_repo on the snapshots of one
\* repository (SpecRepo)

MaxSnaps == 2

\* The first fetch day of the direct calls.
RepoDay == days_from_civil(2024, 2, 20)

\* Fetch times 5 and 12 days apart: the 11-day windows of the first two and
\* of the last two overlap, those of the first and the last leave a day out.
RepoTimes ==
    {RepoDay * SecPerDay + 9 * 3600,
     (RepoDay + 5) * SecPerDay + 15 * 3600,
     (RepoDay + 12) * SecPerDay + 3600}

\* The snapshots of a/x: clones on a day the first two windows share, views
\* on a day the last two windows share.
RepoSnapshots ==
    {repo_to_json(t, "a/x", PointsAt(t), [clones |-> c, views |-> v]) :
        t \in RepoTimes,
        c \in {<<>>, <<DayRec(RepoDay - 4, 2, 1)>>},
        v \in {<<>>, <<DayRec(RepoDay + 1, 3, 2)>>}}

InitRepo ==
    /\ raw = NoRawFile
    /\ fetch = Pending
    /\ proc_dir = EmptyDir
    /\ outcome = Pending
    /\ objs = <<>>
    /\ arg \in {[repo |-> "a/x", objs |-> snaps] :
                   snaps \in SeqsUpTo(RepoSnapshots, MaxSnaps) \ {<<>>}}
    /\ ret = Pending

CallGetDailyStats ==
    /\ ret = Pending
    /\ \E key \in {"clones", "views"} :
           ret' = [fn     |-> "get_daily_stats",
                   key    |-> key,
                   result |-> get_daily_stats(arg.objs, key, window_days)]
    /\ UNCHANGED <<raw, fetch, proc_dir, outcome, objs, arg>>

CallProcessRepo ==
    /\ ret = Pending
    /\ ret' = [fn     |-> "process_repo",
               key    |-> "",
               result |-> process_repo(arg.repo, arg.objs)]
    /\ UNCHANGED <<raw, fetch, proc_dir, outcome, objs, arg>>

NextRepo == CallGetDailyStats \/ CallProcessRepo

SpecRepo == InitRepo /\ [][NextRepo]_vars

----------------------------------------------------------------------------
\* Properties of get_daily_stats and process_repo (SpecRepo)

CalledDaily == ret # Pending /\ ret.fn = "get_daily_stats"

CalledProcess == ret # Pending /\ ret.fn = "process_repo"

\* snaps in the order the permutation p of its indices gives.
Permuted(snaps, p) == [i \in 1..Len(snaps) |-> snaps[p[i]]]

\* C5: for every non-empty list of snapshots of one repository and every
\* permutation of it, get_daily_stats fails on both orders or returns the
\* same <<dates, counts, uniques>> on both.
C5_OrderIndependent ==
    CalledDaily =>
        \A p \in Permutations(1..Len(arg.objs)) :
            \E other \in {get_daily_stats(Permuted(arg.objs, p), ret.key,
                                          window_days)} :
                /\ Returned(other) <=> Returned(ret.result)
                /\ Returned(other) => other = ret.result

\* C5 witness: get_daily_stats returned the clones series of two snapshots
\* that both report clones, the later one first in the list.
C5_Witness ==
    /\ CalledDaily
    /\ ret.key = "clones"
    /\ Returned(ret.result)
    /\ Len(arg.objs) = 2
    /\ arg.objs[1].time > arg.objs[2].time
    /\ arg.objs[1].clones.daily # <<>>
    /\ arg.objs[2].clones.daily # <<>>

FetchDates(snaps) == {date_fromtimestamp(snaps[i].time) : i \in 1..Len(snaps)}

\* Every fetch date but the earliest comes at most window_days - 3 days after
\* another one.
Chained(snaps) ==
    \A f \in FetchDates(snaps) :
        \/ \A g \in FetchDates(snaps) : f <= g
        \/ \E g \in FetchDates(snaps) : g < f /\ f - g <= window_days - 3

\* Each date is the day after the one before it.
Contiguous(dates) ==
    \A i \in 1..(Len(dates) - 1) :
        strptime(dates[i + 1]) = strptime(dates[i]) + 1

\* The days of the windows of all the snapshots.
WindowDays(snaps) ==
    UNION {{d \in (date_fromtimestamp(snaps[i].time) - (window_days - 2))
                   ..(date_fromtimestamp(snaps[i].time) - 2) : TRUE} :
              i \in 1..Len(snaps)}

\* C6 as stated: whenever get_daily_stats returns, whatever the distances
\* between the fetch times, its dates are every calendar day from the
\* earliest to the latest, each once, ascending.
C6_AsStated ==
    (CalledDaily /\ Returned(ret.result)) =>
        Contiguous(ret.result.value[1])

\* C6 amended: whenever get_daily_stats returns, its dates are the days of the
\* snapshots' 11-day windows, each once, ascending; they are every calendar
\* day from the earliest to the latest exactly when every fetch date but the
\* earliest comes at most 11 days (window_days - 3) after another fetch date.
C6_UnionOfWindows ==
    (CalledDaily /\ Returned(ret.result)) =>
        \E dates \in {ret.result.value[1]} :
            /\ \A i \in 1..(Len(dates) - 1) :
                   strptime(dates[i]) < strptime(dates[i + 1])
            /\ \A i \in 1..Len(dates) : strftime(strptime(dates[i])) = dates[i]
            /\ {strptime(dates[i]) : i \in 1..Len(dates)} = WindowDays(arg.objs)
            /\ Contiguous(dates) <=> Chained(arg.objs)

\* C6 witness: get_daily_stats returned 16 contiguous dates for two snapshots
\* fetched 5 days apart, the later one first in the list.
C6_Witness ==
    /\ CalledDaily
    /\ Returned(ret.result)
    /\ Len(arg.objs) = 2
    /\ date_fromtimestamp(arg.objs[1].time) =
           date_fromtimestamp(arg.objs[2].time) + 5
    /\ Len(ret.result.value[1]) = 16
    /\ Contiguous(ret.result.value[1])

\* C10: process_repo never fails the check dates == dates2 of line 145; the
\* six daily arrays of the record it returns have one length; and whenever
\* the clones and the views reconciliation of the same snapshots both return,
\* their dates are the same.
C10_DatesAgree ==
    CalledProcess =>
        /\ ret.result # Raise("AssertionError", 145)
        /\ Returned(ret.result) =>
               \E daily \in {ret.result.value.daily} :
                   \A a \in {daily.times, daily.clones, daily.cloners,
                             daily.views, daily.viewers} :
                       Len(a) = Len(daily.dates)
        /\ \E c \in {get_daily_stats(arg.objs, "clones", window_days)},
              v \in {get_daily_stats(arg.objs, "views", window_days)} :
               (Returned(c) /\ Returned(v)) => c.value[1] = v.value[1]

\* C10 witness: process_repo returned a record for a snapshot whose clones and
\* views lists report different days.
C10_Witness ==
    /\ CalledProcess
    /\ Returned(ret.result)
    /\ \E i \in 1..Len(arg.objs) :
           /\ arg.objs[i].clones.daily # <<>>
           /\ arg.objs[i].views.daily # <<>>
           /\ arg.objs[i].clones.daily[1].date # arg.objs[i].views.daily[1].date
    /\ \E k \in 1..Len(ret.result.value.daily.dates) :
           /\ ret.result.value.daily.clones[k] > 0
           /\ ret.result.value.daily.views[k] = 0

----------------------------------------------------------------------------
\* Runs of the window verifier on a data file (SpecVerify)

MaxLines == 2

\* The fetch day of the verified snapshots.
VerifyDay == days_from_civil(2024, 3, 10)

\* Snapshots fetched at noon: clones reports nothing, a day 3 days back, or
\* days 20 and 3 days back; views reports nothing, the day before, or the
\* day after the fetch.
VerifySnapshots ==
    {repo_to_json(VerifyDay * SecPerDay + 12 * 3600, "a/x",
                  PointsAt(PipeDay * SecPerDay), [clones |-> c, views |-> v]) :
        c \in {<<>>,
               <<DayRec(VerifyDay - 3, 2, 1)>>,
               <<DayRec(VerifyDay - 20, 1, 1), DayRec(VerifyDay - 3, 2, 1)>>},
        v \in {<<>>,
               <<DayRec(VerifyDay - 1, 3, 2)>>,
               <<DayRec(VerifyDay + 1, 3, 2)>>}}

InitVerify ==
    /\ raw = NoRawFile
    /\ fetch = Pending
    /\ proc_dir = EmptyDir
    /\ outcome = Pending
    /\ objs = <<>>
    /\ arg \in {[data |-> lines] :
                   lines \in SeqsUpTo(VerifySnapshots, MaxLines) \ {<<>>}}
    /\ ret = Pending

CallVerify ==
    /\ ret = Pending
    /\ ret' = verify_main(arg.data)
    /\ UNCHANGED <<raw, fetch, proc_dir, outcome, objs, arg>>

SpecVerify == InitVerify /\ [][CallVerify]_vars

\* The days the clones and views lists of snapshot s report.
ReportedDays(s) ==
    {strptime(s.clones.daily[k].date) : k \in 1..Len(s.clones.daily)} \cup
    {strptime(s.views.daily[k].date) : k \in 1..Len(s.views.daily)}

\* The gap of s, from the midnight of its earliest reported day to its fetch
\* time, lies outside [0, 14) days.
GapOutside(s) ==
    /\ ReportedDays(s) # {}
    /\ \E earliest \in ReportedDays(s) :
           /\ \A d \in ReportedDays(s) : earliest <= d
           /\ \/ s.time - earliest * SecPerDay < 0
              \/ s.time - earliest * SecPerDay >= two_weeks * SecPerDay

\* C9 as stated: for every raw log, the run fails on the window assertion if
\* and only if some snapshot's gap lies outside [0, 14) days, and completes
\* when every gap is in range.
C9_AsStated ==
    ret # Pending =>
        /\ (ret.kind = "AssertionError" /\ ret.line \in {54, 55}) <=>
               \E i \in 1..Len(arg.data) : GapOutside(arg.data[i])
        /\ (\A i \in 1..Len(arg.data) : ~GapOutside(arg.data[i])) =>
               Returned(ret)

=============================================================================
